---- MODULE Spec2Model ----
(***************************************************************************)
(* Model of app.py: the session store (session_store.json and the global   *)
(* session_dict), the /query onboarding handler, the /weekly_update        *)
(* handler with its generator call, tool-call extraction, fallback and     *)
(* eval, and the four search adapters.                                     *)
(*                                                                         *)
(* Text is modelled as a sequence of tokens.  A token is a tool name, one  *)
(* of the characters ( ) " or a piece of text that holds none of them.     *)
(***************************************************************************)
EXTENDS Integers, Sequences, FiniteSets, TLC

VARIABLES
    file,          \* contents of session_store.json
    session_dict,  \* the global dictionary of app.py
    req,           \* per worker thread: the request it is handling
    started,       \* requests received so far
    fin,           \* function specification: the input of the function under test
    fout           \* function specification: what the function returned

vars == <<file, session_dict, req, started, fin, fout>>

(* ------------------------------ bounds -------------------------------- *)
MaxRequests == 2
MaxHits == 2
MaxQueryLen == 2

(* --------------------------- program constants ------------------------- *)
MaxResults == 5

Users == {"alice", "bob"}
(* the worker threads of the server: req has one entry for each *)
Workers == {1, 2}
Threads == DOMAIN req

(* extract_tool's None; like None, the empty text is falsy in  if not tool_call *)
None == <<>>
Q == "\""
LP == "("
RP == ")"

Min(a, b) == IF a < b THEN a ELSE b

RECURSIVE SeqsUpTo(_, _)
SeqsUpTo(S, n) ==
    IF n = 0 THEN {<<>>}
    ELSE LET shorter == SeqsUpTo(S, n - 1)
         IN  shorter \cup {Append(s, x) : s \in {t \in shorter : Len(t) = n - 1}, x \in S}

(* s occurs in t as a contiguous run of tokens: Python's  s in t *)
Contains(t, s) ==
    \E i \in 0..(Len(t) - Len(s)) : \A k \in 1..Len(s) : t[i + k] = s[k]

(* ------------------------------ tool parser ---------------------------- *)
ToolList == <<"websearch", "get_page", "youtube_search", "tiktok_search", "instagram_search">>
ToolNames == {ToolList[i] : i \in 1..Len(ToolList)}
SearchTools == {"websearch", "youtube_search", "tiktok_search", "instagram_search"}

(* re.search(tool\([^)]*\), text): the leftmost place where the tool name is
   followed by "(" and a ")" comes later; the match runs to the first ")". *)
MatchStarts(tool, text) ==
    {i \in 1..Len(text) :
        /\ text[i] = tool
        /\ i + 1 <= Len(text)
        /\ text[i + 1] = LP
        /\ \E j \in (i + 2)..Len(text) : text[j] = RP}

Match(tool, text) ==
    IF MatchStarts(tool, text) = {} THEN None
    ELSE LET i == CHOOSE a \in MatchStarts(tool, text) :
                      \A b \in MatchStarts(tool, text) : a <= b
             j == CHOOSE a \in (i + 2)..Len(text) :
                      /\ text[a] = RP
                      /\ \A b \in (i + 2)..Len(text) : text[b] = RP => a <= b
         IN  SubSeq(text, i, j)

RECURSIVE ExtractFrom(_, _)
ExtractFrom(k, text) ==
    IF k > Len(ToolList) THEN None
    ELSE IF Match(ToolList[k], text) # None THEN Match(ToolList[k], text)
    ELSE ExtractFrom(k + 1, text)

extract_tool(text) == ExtractFrom(1, text)

(* the text  tool("query")  of a call *)
RenderCall(tool, query) == <<tool, LP, Q>> \o query \o <<Q, RP>>

(* ------------------------------- eval ---------------------------------- *)
(* The argument text of a call parsed as adjacent double-quoted string
   literals, as Python's parser does: "a" or "a""b".  ok is FALSE where
   Python raises SyntaxError or NameError. *)
RECURSIVE ParseLits(_)
ParseLits(a) ==
    IF Len(a) < 2 \/ a[1] # Q \/ ~(\E j \in 2..Len(a) : a[j] = Q)
    THEN [ok |-> FALSE, val |-> <<>>]
    ELSE LET j == CHOOSE x \in 2..Len(a) :
                      a[x] = Q /\ \A y \in 2..Len(a) : a[y] = Q => x <= y
             body == SubSeq(a, 2, j - 1)
             rest == SubSeq(a, j + 1, Len(a))
         IN  IF rest = <<>> THEN [ok |-> TRUE, val |-> body]
             ELSE IF ParseLits(rest).ok
                  THEN [ok |-> TRUE, val |-> body \o ParseLits(rest).val]
                  ELSE [ok |-> FALSE, val |-> <<>>]

(* eval(tool_call) up to the call itself: the function named and its string
   argument, or ok = FALSE when evaluating the text raises before any call. *)
EvalCall(tc) ==
    IF /\ Len(tc) >= 3
       /\ tc[1] \in ToolNames
       /\ tc[2] = LP
       /\ tc[Len(tc)] = RP
       /\ ParseLits(SubSeq(tc, 3, Len(tc) - 1)).ok
    THEN [ok |-> TRUE, fn |-> tc[1], arg |-> ParseLits(SubSeq(tc, 3, Len(tc) - 1)).val]
    ELSE [ok |-> FALSE, fn |-> "", arg |-> <<>>]

(* the operands of  a or b or ...  : the text split at each " or " that is
   outside a string literal *)
RECURSIVE SplitOr(_, _, _)
SplitOr(tc, cur, quoted) ==
    IF tc = <<>> THEN <<cur>>
    ELSE IF Head(tc) = " or " /\ ~quoted
    THEN <<cur>> \o SplitOr(Tail(tc), <<>>, FALSE)
    ELSE SplitOr(Tail(tc), Append(cur, Head(tc)),
                 IF Head(tc) = Q THEN ~quoted ELSE quoted)

(* one operand: a call of a tool, or session_dict.clear() on the module's
   global, which eval resolves as any other global name *)
EvalOperand(o) ==
    IF o = <<"session_dict.clear", LP, RP>>
    THEN [ok |-> TRUE, fn |-> "session_dict.clear", arg |-> <<>>]
    ELSE EvalCall(o)

(* eval(tool_call) up to the first call: the operands in the order Python
   evaluates them; ok = FALSE when the text raises before any call *)
EvalPlan(tc) ==
    LET parts == SplitOr(tc, <<>>, FALSE) IN
    [ok |-> \A i \in 1..Len(parts) : EvalOperand(parts[i]).ok,
     ops |-> [i \in 1..Len(parts) |-> EvalOperand(parts[i])]]

(* ---------------------------- search adapters -------------------------- *)
(* A URL is <<host, path>>.  The backend (DuckDuckGoSearch.text) answers a
   query with at most max_results hits, or raises. *)
URLs ==
    { <<"duckduckgo.com", "/y.js">>,
      <<"youtube.com", "/watch">>, <<"youtube.com", "/channel">>,
      <<"tiktok.com", "/video/">>, <<"tiktok.com", "/@user">>,
      <<"instagram.com", "/reel/">>, <<"instagram.com", "/user">> }

(* the URLs the backend answers with in the application's runs *)
AppURLs == { <<"youtube.com", "/watch">>, <<"youtube.com", "/channel">> }

BackendOutcomes(urls) ==
    {[kind |-> "ok", hits |-> h] : h \in SeqsUpTo(urls, Min(MaxHits, MaxResults))}
      \cup {[kind |-> k, hits |-> <<>>] : k \in {"RateLimited", "SearchFailure"}}

Filter(hits, needle) == SelectSeq(hits, LAMBDA u : Contains(u, needle))

(* faulty variant: a rate-limited call is retried once after a sleep of 2 *)
ddg_textRetry(sent, b) ==
    [raised |-> IF b.kind = "ok" THEN "" ELSE b.kind,
     hits |-> IF b.kind = "ok" THEN b.hits ELSE <<>>,
     sent |-> sent,
     calls |-> IF b.kind = "RateLimited" THEN 2 ELSE 1,
     slept |-> IF b.kind = "RateLimited" THEN 2 ELSE 0]

(* One ddg.text call: the hits, or the exception it raises.  calls counts the
   backend calls made and slept the time spent in sleep. *)
ddg_text(sent, b) ==
    [raised |-> IF b.kind = "ok" THEN "" ELSE b.kind,
     hits |-> IF b.kind = "ok" THEN b.hits ELSE <<>>,
     sent |-> sent, calls |-> 1, slept |-> 0]

websearch(query, b) ==
    LET r == ddg_text(query, b)
    IN  [r EXCEPT !.hits = r.hits]

youtube_search(query, b) ==
    LET r == ddg_text(query \o <<" ", "site:youtube.com">>, b)
    IN  [r EXCEPT !.hits = Filter(r.hits, <<"youtube.com", "/watch">>)]

(* faulty variant: the filter of tiktok_search left out *)
tiktok_searchUnfiltered(query, b) ==
    ddg_text(query \o <<" ", "site:tiktok.com">>, b)

tiktok_search(query, b) ==
    LET r == ddg_text(query \o <<" ", "site:tiktok.com">>, b)
    IN  [r EXCEPT !.hits = Filter(r.hits, <<"tiktok.com">>)]

instagram_search(query, b) ==
    LET hashtag == SelectSeq(query, LAMBDA tok : tok # " ")
        r == ddg_text(<<"#">> \o hashtag \o <<" ", "site:instagram.com">>, b)
    IN  [r EXCEPT !.hits = Filter(r.hits, <<"instagram.com">>)]

Search(tool, query, b) ==
    CASE tool = "websearch" -> websearch(query, b)
      [] tool = "youtube_search" -> youtube_search(query, b)
      [] tool = "tiktok_search" -> tiktok_search(query, b)
      [] tool = "instagram_search" -> instagram_search(query, b)

(* get_page: requests.get raises, or the page text (a string) comes back;
   each character is written as a one-token text *)
PageOutcomes ==
    {[kind |-> "RequestError", text |-> <<>>],
     [kind |-> "ok", text |-> << <<"o">>, <<"k">> >>],
     [kind |-> "ok", text |-> <<>>]}

(* The outcomes of evaluating the operands from the i-th on: `or` yields the
   first truthy value, or the last value.  session_dict.clear() empties the
   dictionary and yields None; None as the value of the whole text makes
   line 198 raise TypeError.  calls counts the backend calls made so far. *)
RECURSIVE RunOps(_, _, _)
RunOps(ops, i, calls) ==
    LET o == ops[i]
        last == i = Len(ops)
    IN  IF o.fn = "session_dict.clear"
        THEN IF last
             THEN {[raised |-> "TypeError", hits |-> <<>>, calls |-> calls,
                    slept |-> 0, cleared |-> TRUE]}
             ELSE {[x EXCEPT !.cleared = TRUE] : x \in RunOps(ops, i + 1, calls)}
        ELSE IF o.fn = "get_page"
        THEN UNION { IF p.kind # "ok" \/ p.text # <<>> \/ last
                     THEN {[raised |-> IF p.kind = "ok" THEN "" ELSE p.kind,
                            hits |-> p.text, calls |-> calls, slept |-> 0,
                            cleared |-> FALSE]}
                     ELSE RunOps(ops, i + 1, calls) : p \in PageOutcomes }
        ELSE UNION { LET r == Search(o.fn, o.arg, b) IN
                     IF r.raised # "" \/ r.hits # <<>> \/ last
                     THEN {[raised |-> r.raised, hits |-> r.hits,
                            calls |-> calls + r.calls, slept |-> r.slept,
                            cleared |-> FALSE]}
                     ELSE RunOps(ops, i + 1, calls + r.calls)
                     : b \in BackendOutcomes(AppURLs) }

(* ------------------------------ sessions ------------------------------- *)
(* A store is a function from the users it holds to their records: a Python
   dict.  Weight 0 of a new record is written "0": the messages hold no "0". *)
EmptyStore == [u \in {} |-> 0]

Put(store, u, rec) ==
    [v \in (DOMAIN store) \cup {u} |-> IF v = u THEN rec ELSE store[v]]

NewSession(u) ==
    [session_id |-> <<u, "-session">>,
     onboarding_stage |-> "condition",
     condition |-> "",
     age |-> 0,
     weight |-> "0",
     medications |-> <<>>,
     emergency_contact |-> "",
     news_pref |-> "",
     news_sources |-> <<"bbc.com", "nytimes.com">>]

(* session_store.json: missing, valid JSON, or opened for writing and not
   yet written (empty, which json.load rejects) *)
NoFile == [state |-> "missing", data |-> EmptyStore]
Written(store) == [state |-> "ok", data |-> store]
Truncated == [state |-> "partial", data |-> EmptyStore]

load_sessions(f) == IF f.state = "ok" THEN f.data ELSE EmptyStore

(* ------------------------------ messages ------------------------------- *)
(* a message that closes the string literal of the fallback call and goes
   on with Python of its own:  x") or session_dict.clear() or websearch("y *)
Inject == "x\") or session_dict.clear() or websearch(\"y"

Messages == {"restart", "7", "x", "Crohn's", Inject}

HasRestart(m) == m \in {"restart"}
IsDigit(m) == m \in {"7"}
ToInt(m) == CASE m = "7" -> 7 [] OTHER -> 0
SplitStrip(m) == <<m>>
Lower(m) ==
    CASE m = "YouTube" -> "youtube"
      [] m = "TikTok" -> "tiktok"
      [] m = "Instagram Reel" -> "instagram reel"
      [] m = "Research News" -> "research news"
      [] m = "Crohn's" -> "crohn's"
      [] OTHER -> m
(* the characters of a stored string, as tokens *)
Tokens(m) ==
    IF m = "" THEN <<>>
    ELSE IF m = Inject
    THEN <<"x", Q, RP, " or ", "session_dict.clear", LP, RP, " or ",
           "websearch", LP, Q, "y">>
    ELSE <<m>>

valid_options == {"YouTube", "Instagram Reel", "TikTok", "Research News"}
valid_conditions == {"Crohn's", "Type II Diabetes"}

(* ---------------------------- onboarding ------------------------------- *)
(* faulty variant: at stage news_pref any message is stored *)
first_interactionAnyOption(rec, message) ==
    LET stage == rec.onboarding_stage IN
    CASE stage = "condition" ->
           [rec |-> [rec EXCEPT !.condition = message, !.onboarding_stage = "age"],
            text |-> "ask age"]
      [] stage = "age" ->
           IF ~IsDigit(message)
           THEN [rec |-> rec, text |-> "invalid age"]
           ELSE [rec |-> [rec EXCEPT !.age = ToInt(message), !.onboarding_stage = "weight"],
                 text |-> "ask weight"]
      [] stage = "weight" ->
           [rec |-> [rec EXCEPT !.weight = message, !.onboarding_stage = "medications"],
            text |-> "ask medications"]
      [] stage = "medications" ->
           [rec |-> [rec EXCEPT !.medications = SplitStrip(message),
                                !.onboarding_stage = "emergency_contact"],
            text |-> "ask emergency_contact"]
      [] stage = "emergency_contact" ->
           [rec |-> [rec EXCEPT !.emergency_contact = message,
                                !.onboarding_stage = "news_pref"],
            text |-> "ask news_pref"]
      [] stage = "news_pref" ->
           [rec |-> [rec EXCEPT !.news_pref = message, !.onboarding_stage = "condition1"],
            text |-> "ask condition1"]
      [] stage = "condition1" ->
           IF message \notin valid_conditions
           THEN [rec |-> rec, text |-> "click a button"]
           ELSE [rec |-> [rec EXCEPT !.condition = message, !.onboarding_stage = "done"],
                 text |-> "onboarding complete"]
      [] OTHER -> [rec |-> rec, text |-> "none"]

(* first_interaction on the user's record: the record after it and the text
   returned, named by the question it asks. *)
first_interaction(rec, message) ==
    LET stage == rec.onboarding_stage IN
    CASE stage = "condition" ->
           [rec |-> [rec EXCEPT !.condition = message, !.onboarding_stage = "age"],
            text |-> "ask age"]
      [] stage = "age" ->
           IF ~IsDigit(message)
           THEN [rec |-> rec, text |-> "invalid age"]
           ELSE [rec |-> [rec EXCEPT !.age = ToInt(message), !.onboarding_stage = "weight"],
                 text |-> "ask weight"]
      [] stage = "weight" ->
           [rec |-> [rec EXCEPT !.weight = message, !.onboarding_stage = "medications"],
            text |-> "ask medications"]
      [] stage = "medications" ->
           [rec |-> [rec EXCEPT !.medications = SplitStrip(message),
                                !.onboarding_stage = "emergency_contact"],
            text |-> "ask emergency_contact"]
      [] stage = "emergency_contact" ->
           [rec |-> [rec EXCEPT !.emergency_contact = message,
                                !.onboarding_stage = "news_pref"],
            text |-> "ask news_pref"]
      [] stage = "news_pref" ->
           IF message \notin valid_options
           THEN [rec |-> rec, text |-> "click a button"]
           ELSE [rec |-> [rec EXCEPT !.news_pref = message, !.onboarding_stage = "condition1"],
                 text |-> "ask condition1"]
      [] stage = "condition1" ->
           IF message \notin valid_conditions
           THEN [rec |-> rec, text |-> "click a button"]
           ELSE [rec |-> [rec EXCEPT !.condition = message, !.onboarding_stage = "done"],
                 text |-> "onboarding complete"]
      [] OTHER -> [rec |-> rec, text |-> "none"]

(* --------------------------- /weekly_update ---------------------------- *)
(* what the generator may answer: the text of response['response'] *)
GenTexts ==
    { RenderCall("youtube_search", <<"meals">>),
      RenderCall("websearch", <<"meals">>),
      RenderCall("get_page", <<"http://x">>),
      <<"Sorry, I cannot help">>,
      RenderCall("instagram_search", <<"meals ", LP, "easy", RP>>) }

ToolOfKey(key) ==
    CASE key = "youtube" -> "youtube_search"
      [] key = "tiktok" -> "tiktok_search"
      [] key = "instagram reel" -> "instagram_search"
      [] key = "research news" -> "websearch"

FallbackKeys == {"youtube", "tiktok", "instagram reel", "research news"}

(* faulty variant: the fallback query is the bare condition *)
FallbackBare(news_pref, condition) ==
    LET pref == Lower(news_pref)
        key == IF pref \in FallbackKeys THEN pref ELSE "research news"
    IN  RenderCall(ToolOfKey(key), Tokens(condition))

(* lines 181-192: the fallback call for the profile *)
Fallback(news_pref, condition) ==
    LET pref == Lower(news_pref)
        key == IF pref \in FallbackKeys THEN pref ELSE "research news"
    IN  RenderCall(ToolOfKey(key), Tokens(condition) \o <<" ", "tips">>)

(* faulty variant: the generated call is ignored and the profile's call is run *)
ChooseCallFallbackOnly(agent_response, news_pref, condition) ==
    RenderCall(ToolOfKey(IF Lower(news_pref) \in FallbackKeys
                         THEN Lower(news_pref) ELSE "research news"),
               Tokens(condition) \o <<" ", "tips">>)

(* lines 176-192 *)
ChooseCall(agent_response, news_pref, condition) ==
    IF extract_tool(agent_response) = None
    THEN Fallback(news_pref, condition)
    ELSE extract_tool(agent_response)

(* faulty variant: the first item is skipped *)
BulletsSkipFirst(items) == [i \in 1..(Len(items) - 1) |-> <<"* ", items[i + 1]>>]

(* line 198: one bullet line per item of the tool's result *)
Bullets(items) == [i \in 1..Len(items) |-> <<"* ", items[i]>>]

NoResp == [status |-> 0, error |-> "", text |-> <<>>,
           agent_response |-> <<>>, executed_tool |-> <<>>, results |-> <<>>]
ErrorResp(status, error) == [NoResp EXCEPT !.status = status, !.error = error]
TextResp(text) == [NoResp EXCEPT !.status = 200, !.text = text]
Crash(error) == ErrorResp(500, error)
UpdateResp(agent_response, tool_call, items) ==
    [NoResp EXCEPT !.status = 200, !.agent_response = agent_response,
                   !.executed_tool = tool_call, !.results = Bullets(items)]

(* a worker thread with no request *)
Idle ==
    [pc |-> "idle", route |-> "", user |-> "", message |-> "",
     news_pref |-> "", condition |-> "", stage |-> "",
     agent_response |-> <<>>, tool_call |-> <<>>,
     gen_calls |-> 0, called |-> "", backend |-> "",
     backend_calls |-> 0, slept |-> 0, items |-> <<>>,
     detached |-> FALSE, held |-> EmptyStore,
     resp |-> NoResp]

Done(t, resp) == [req[t] EXCEPT !.pc = "done", !.resp = resp]

(* a request goes to the first thread that is free *)
FirstFree(t) ==
    /\ req[t].pc = "idle"
    /\ \A s \in Threads : s < t => req[s].pc # "idle"

StartWeekly(t, u) ==
    /\ FirstFree(t)
    /\ started < MaxRequests
    /\ started' = started + 1
    /\ req' = [req EXCEPT ![t] = [Idle EXCEPT !.pc = "w_check", !.route = "weekly", !.user = u]]
    /\ UNCHANGED <<file, session_dict, fin, fout>>

(* faulty variant: the membership test always passes *)
UserKnownAlways(u, store) == TRUE

(* lines 153-154 *)
UserKnown(u, store) == u \in DOMAIN store

W_Check(t) ==
    /\ req[t].pc = "w_check"
    /\ req' = [req EXCEPT ![t] =
                 IF UserKnown(req[t].user, session_dict)
                 THEN [req[t] EXCEPT !.pc = "w_read"]
                 ELSE Done(t, ErrorResp(404, "User not found in session store."))]
    /\ UNCHANGED <<file, session_dict, started, fin, fout>>

(* lines 156-168; a KeyError at line 156 is outside the try block.  The
   reads of lines 161-167 follow line 156 without a blocking call and are
   taken in the same step. *)
W_Read(t) ==
    /\ req[t].pc = "w_read"
    /\ req' = [req EXCEPT ![t] =
                 IF req[t].user \in DOMAIN session_dict
                 THEN [req[t] EXCEPT !.pc = "w_generate",
                                     !.news_pref = session_dict[req[t].user].news_pref,
                                     !.condition = session_dict[req[t].user].condition]
                 ELSE Done(t, ErrorResp(500, "KeyError"))]
    /\ UNCHANGED <<file, session_dict, started, fin, fout>>

(* lines 172-194: agent_weekly_update answers or raises; then the call is
   extracted from the answer, or the fallback is taken *)
W_Generate(t) ==
    /\ req[t].pc = "w_generate"
    /\ \/ \E g \in GenTexts :
             req' = [req EXCEPT ![t] =
                      [req[t] EXCEPT !.pc = "w_eval",
                                     !.gen_calls = 1,
                                     !.agent_response = g,
                                     !.tool_call = ChooseCall(g, req[t].news_pref,
                                                              req[t].condition)]]
       \/ req' = [req EXCEPT ![t] =
                    [Done(t, ErrorResp(500, "GenerationFailure")) EXCEPT !.gen_calls = 1]]
    /\ UNCHANGED <<file, session_dict, started, fin, fout>>

(* faulty variant: a failed search becomes an entry of a successful response *)
EvalOutcomeSentinel(r, tc, called, run) ==
    [r EXCEPT !.pc = "done", !.called = called,
              !.backend = IF run.raised # "" THEN run.raised ELSE "ok",
              !.backend_calls = run.calls, !.slept = run.slept,
              !.items = IF run.raised # "" THEN << <<"Error fetching results">> >>
                        ELSE run.hits,
              !.resp = [status |-> 200, error |-> "", text |-> <<>>,
                        agent_response |-> r.agent_response,
                        executed_tool |-> tc,
                        results |-> IF run.raised # ""
                                    THEN << <<"* ", <<"Error fetching results">> >> >>
                                    ELSE [i \in 1..Len(run.hits) |-> <<"* ", run.hits[i]>>]]]

(* lines 197-208: eval of the call, the response, the except branch *)
EvalOutcome(r, tc, called, run) ==
    IF run.raised # ""
    THEN [r EXCEPT !.pc = "done", !.called = called, !.backend = run.raised,
                   !.backend_calls = run.calls, !.slept = run.slept,
                   !.resp = ErrorResp(500, run.raised)]
    ELSE [r EXCEPT !.pc = "done", !.called = called, !.backend = "ok",
                   !.backend_calls = run.calls, !.slept = run.slept,
                   !.items = run.hits,
                   !.resp = UpdateResp(r.agent_response, tc, run.hits)]

W_Eval(t) ==
    /\ req[t].pc = "w_eval"
    /\ LET tc == req[t].tool_call
           e == EvalPlan(tc)
       IN  IF ~e.ok
           THEN /\ req' = [req EXCEPT ![t] = Done(t, ErrorResp(500, "EvalError"))]
                /\ UNCHANGED session_dict
           ELSE \E run \in RunOps(e.ops, 1, 0) :
                  /\ req' = [req EXCEPT ![t] =
                               EvalOutcome(req[t], tc, e.ops[1].fn, run)]
                  /\ session_dict' = IF run.cleared THEN EmptyStore
                                     ELSE session_dict
    /\ UNCHANGED <<file, started, fin, fout>>

(* the handler has returned; the thread takes the next request *)
Finish(t) ==
    /\ req[t].pc = "done"
    /\ req' = [req EXCEPT ![t] = Idle]
    /\ UNCHANGED <<file, session_dict, started, fin, fout>>

(* ------------------------------- /query -------------------------------- *)
StartQuery(t, u, m) ==
    /\ FirstFree(t)
    /\ started < MaxRequests
    /\ started' = started + 1
    /\ req' = [req EXCEPT ![t] = [Idle EXCEPT !.pc = "q_load", !.route = "query",
                                              !.user = u, !.message = m]]
    /\ UNCHANGED <<file, session_dict, fin, fout>>

(* A thread inside save_sessions holds the dictionary it was called with.
   When the global name is bound to a new dictionary the old one stays with
   the threads that hold it. *)
Saving(r) == r.pc \in {"q_rs_dump", "q_in_dump", "q_dump"}

Rebind(old) ==
    [s \in Threads |->
        IF Saving(req[s]) /\ ~req[s].detached
        THEN [req[s] EXCEPT !.detached = TRUE, !.held = old]
        ELSE req[s]]

(* lines 294-299 *)
Q_Load(t) ==
    /\ req[t].pc = "q_load"
    /\ session_dict' = load_sessions(file)
    /\ req' = [Rebind(session_dict) EXCEPT ![t] =
                 [req[t] EXCEPT !.pc = IF HasRestart(Lower(req[t].message))
                                       THEN "q_restart" ELSE "q_init"]]
    /\ UNCHANGED <<file, started, fin, fout>>

(* lines 300-310 *)
Q_Restart(t) ==
    /\ req[t].pc = "q_restart"
    /\ session_dict' = Put(session_dict, req[t].user, NewSession(req[t].user))
    /\ req' = [req EXCEPT ![t] = [req[t] EXCEPT !.pc = "q_rs_open"]]
    /\ UNCHANGED <<file, started, fin, fout>>

DumpOf(pc) ==
    CASE pc = "q_rs_open" -> "q_rs_dump"
      [] pc = "q_in_open" -> "q_in_dump"
      [] pc = "q_open" -> "q_dump"

AfterDump(pc) ==
    CASE pc = "q_rs_dump" -> "q_rs_first"
      [] pc = "q_in_dump" -> "q_first"
      [] pc = "q_dump" -> "done"

(* line 28: open(SESSION_FILE, "w") empties the file *)
SaveOpen(t) ==
    /\ req[t].pc \in {"q_rs_open", "q_in_open", "q_open"}
    /\ file' = Truncated
    /\ req' = [req EXCEPT ![t] = [req[t] EXCEPT !.pc = DumpOf(req[t].pc),
                                                !.detached = FALSE,
                                                !.held = EmptyStore]]
    /\ UNCHANGED <<session_dict, started, fin, fout>>

(* line 29: json.dump of the dictionary save_sessions was called with;
   after the save of line 336 the handler returns its response (line 337) *)
SaveDump(t) ==
    /\ Saving(req[t])
    /\ file' = Written(IF req[t].detached THEN req[t].held ELSE session_dict)
    /\ req' = [req EXCEPT ![t] = [req[t] EXCEPT !.pc = AfterDump(req[t].pc),
                                                !.detached = FALSE,
                                                !.held = EmptyStore]]
    /\ UNCHANGED <<session_dict, started, fin, fout>>

(* lines 312-313 *)
Q_RestartFirst(t) ==
    /\ req[t].pc = "q_rs_first"
    /\ LET u == req[t].user IN
       IF u \notin DOMAIN session_dict
       THEN /\ req' = [req EXCEPT ![t] = Done(t, Crash("KeyError"))]
            /\ UNCHANGED session_dict
       ELSE LET fi == first_interaction(session_dict[u], "") IN
            /\ session_dict' = Put(session_dict, u, fi.rec)
            /\ req' = [req EXCEPT ![t] =
                         IF fi.text = "none"
                         THEN Done(t, Crash("AttributeError"))
                         ELSE Done(t, TextResp(<<"restarted", fi.text>>))]
    /\ UNCHANGED <<file, started, fin, fout>>

(* lines 316-328 *)
Q_Init(t) ==
    /\ req[t].pc = "q_init"
    /\ IF req[t].user \notin DOMAIN session_dict
       THEN /\ session_dict' = Put(session_dict, req[t].user, NewSession(req[t].user))
            /\ req' = [req EXCEPT ![t] = [req[t] EXCEPT !.pc = "q_in_open"]]
       ELSE /\ req' = [req EXCEPT ![t] = [req[t] EXCEPT !.pc = "q_first"]]
            /\ UNCHANGED session_dict
    /\ UNCHANGED <<file, started, fin, fout>>

(* lines 331 and 223: the test of the stage and first_interaction's read of
   it into its local  stage *)
Q_First(t) ==
    /\ req[t].pc = "q_first"
    /\ LET u == req[t].user IN
       req' = [req EXCEPT ![t] =
                 IF u \notin DOMAIN session_dict
                 THEN Done(t, Crash("KeyError"))
                 ELSE IF session_dict[u].onboarding_stage # "done"
                 THEN [req[t] EXCEPT !.pc = "q_store",
                                     !.stage = session_dict[u].onboarding_stage]
                 ELSE [req[t] EXCEPT !.pc = "q_open",
                                     !.resp = TextResp(<<"fully onboarded">>)]]
    /\ UNCHANGED <<file, session_dict, started, fin, fout>>

(* lines 225-283: the branch of the local stage.  It writes the field and
   the next stage into the record that session_dict holds for the user now
   (the two assignments are taken together); a rejected message writes
   nothing. *)
Q_Store(t) ==
    /\ req[t].pc = "q_store"
    /\ LET u == req[t].user
           cur == IF u \in DOMAIN session_dict THEN session_dict[u]
                  ELSE NewSession(u)
           seen == [cur EXCEPT !.onboarding_stage = req[t].stage]
           fi == first_interaction(seen, req[t].message)
       IN  IF fi.rec = seen
           THEN /\ req' = [req EXCEPT ![t] = [req[t] EXCEPT !.pc = "q_open",
                                                            !.resp = TextResp(<<fi.text>>)]]
                /\ UNCHANGED session_dict
           ELSE IF u \notin DOMAIN session_dict
           THEN /\ req' = [req EXCEPT ![t] = Done(t, Crash("KeyError"))]
                /\ UNCHANGED session_dict
           ELSE /\ session_dict' = Put(session_dict, u, fi.rec)
                /\ req' = [req EXCEPT ![t] = [req[t] EXCEPT !.pc = "q_open",
                                                            !.resp = TextResp(<<fi.text>>)]]
    /\ UNCHANGED <<file, started, fin, fout>>

(* --------------------------- the application --------------------------- *)
(* a record the onboarding leaves behind: messages x, 7, x, x, x, YouTube,
   Crohn's *)
Onboarded(u) ==
    [NewSession(u) EXCEPT !.onboarding_stage = "done", !.condition = "Crohn's",
                          !.age = 7, !.weight = "x", !.medications = <<"x">>,
                          !.emergency_contact = "x", !.news_pref = "YouTube"]

(* a record in the middle of the onboarding: messages x, 7, x, x, x,
   YouTube *)
AtCondition1(u) ==
    [NewSession(u) EXCEPT !.onboarding_stage = "condition1", !.condition = "x",
                          !.age = 7, !.weight = "x", !.medications = <<"x">>,
                          !.emergency_contact = "x", !.news_pref = "YouTube"]

StoredFile ==
    Written(Put(Put(EmptyStore, "alice", Onboarded("alice")),
                "bob", AtCondition1("bob")))

(* session_store.json as earlier runs may have left it *)
InitFiles == { NoFile, StoredFile }

NoFn == [fn |-> "none", tool |-> "", query |-> <<>>, backend |-> [kind |-> "ok", hits |-> <<>>],
         rec |-> NewSession(""), message |-> ""]
NoOut == [done |-> FALSE, val |-> <<>>, raised |-> "", calls |-> 0, slept |-> 0,
          rec |-> NewSession(""), text |-> ""]

Init ==
    /\ file \in InitFiles
    /\ session_dict = load_sessions(file)
    /\ req = [t \in Workers |-> Idle]
    /\ started = 0
    /\ fin = NoFn
    /\ fout = NoOut

Next ==
    \/ \E t \in Threads, u \in Users : StartWeekly(t, u)
    \/ \E t \in Threads : W_Check(t)
    \/ \E t \in Threads : W_Read(t)
    \/ \E t \in Threads : W_Generate(t)
    \/ \E t \in Threads : W_Eval(t)
    \/ \E t \in Threads, u \in Users, m \in Messages : StartQuery(t, u, m)
    \/ \E t \in Threads : Q_Load(t)
    \/ \E t \in Threads : Q_Restart(t)
    \/ \E t \in Threads : SaveOpen(t)
    \/ \E t \in Threads : SaveDump(t)
    \/ \E t \in Threads : Q_RestartFirst(t)
    \/ \E t \in Threads : Q_Init(t)
    \/ \E t \in Threads : Q_First(t)
    \/ \E t \in Threads : Q_Store(t)
    \/ \E t \in Threads : Finish(t)

Spec == Init /\ [][Next]_vars

(* ------------- three requests at once: a digest and two /query --------- *)
RaceWorkers == {1, 2, 3}

(* alice asks for her digest; bob sends his messages *)
RaceMessages == {"x"}

InitRace ==
    /\ file = StoredFile
    /\ session_dict = load_sessions(file)
    /\ req = [t \in RaceWorkers |-> Idle]
    /\ started = 0
    /\ fin = NoFn
    /\ fout = NoOut

(* a /weekly_update request while no other one is being handled; started
   counts the /query requests *)
StartDigest(t, u) ==
    /\ FirstFree(t)
    /\ \A s \in Threads : req[s].route # "weekly"
    /\ req' = [req EXCEPT ![t] = [Idle EXCEPT !.pc = "w_check", !.route = "weekly", !.user = u]]
    /\ UNCHANGED <<file, session_dict, started, fin, fout>>

NextRace ==
    \/ \E t \in Threads : StartDigest(t, "alice")
    \/ \E t \in Threads : W_Check(t)
    \/ \E t \in Threads : W_Read(t)
    \/ \E t \in Threads : W_Generate(t)
    \/ \E t \in Threads : W_Eval(t)
    \/ \E t \in Threads, m \in RaceMessages : StartQuery(t, "bob", m)
    \/ \E t \in Threads : Q_Load(t)
    \/ \E t \in Threads : SaveOpen(t)
    \/ \E t \in Threads : SaveDump(t)
    \/ \E t \in Threads : Q_Init(t)
    \/ \E t \in Threads : Q_First(t)
    \/ \E t \in Threads : Q_Store(t)
    \/ \E t \in Threads : Finish(t)

SpecRace == InitRace /\ [][NextRace]_vars

(* ------------------- the pure functions, on their own ------------------ *)
QueryAlphabet == {"meals", " ", LP, RP, "websearch", "instagram_search"}

ParseInputs ==
    {[NoFn EXCEPT !.fn = "extract_tool", !.tool = t, !.query = q] :
        t \in ToolNames, q \in SeqsUpTo(QueryAlphabet, MaxQueryLen) \ {<<>>}}

SearchInputs ==
    {[NoFn EXCEPT !.fn = "search", !.tool = t, !.query = <<"meals">>, !.backend = b] :
        t \in SearchTools, b \in BackendOutcomes(URLs)}

(* the answers of a complete onboarding, in the order of the stages *)
Answers == <<"x", "7", "x", "x", "x", "YouTube", "Crohn's">>

(* the record after the first k answers *)
RECURSIVE RecordAfter(_)
RecordAfter(k) ==
    IF k = 0 THEN NewSession("alice")
    ELSE first_interaction(RecordAfter(k - 1), Answers[k]).rec

(* the messages sent to a record at any stage *)
FnMessages ==
    {"", "x", "7", "restart", Inject, "youtube",
     "YouTube", "Instagram Reel", "TikTok", "Research News",
     "Crohn's", "Type II Diabetes"}

OnboardInputs ==
    {[NoFn EXCEPT !.fn = "first_interaction", !.rec = RecordAfter(k), !.message = m] :
        k \in 0..Len(Answers), m \in FnMessages}

InitFn ==
    /\ file = NoFile
    /\ session_dict = EmptyStore
    /\ req = [t \in Workers |-> Idle]
    /\ started = 0
    /\ fin \in ParseInputs \cup SearchInputs \cup OnboardInputs
    /\ fout = NoOut

(* extract_tool applied to the text of a rendered call *)
ApplyExtract ==
    /\ ~fout.done
    /\ fin.fn = "extract_tool"
    /\ fout' = [NoOut EXCEPT !.done = TRUE,
                             !.val = extract_tool(RenderCall(fin.tool, fin.query))]
    /\ UNCHANGED <<file, session_dict, req, started, fin>>

(* one of the four search adapters applied to a backend answer *)
ApplySearch ==
    /\ ~fout.done
    /\ fin.fn = "search"
    /\ LET r == Search(fin.tool, fin.query, fin.backend) IN
       fout' = [NoOut EXCEPT !.done = TRUE, !.val = r.hits, !.raised = r.raised,
                             !.calls = r.calls, !.slept = r.slept]
    /\ UNCHANGED <<file, session_dict, req, started, fin>>

(* first_interaction applied to a record and a message *)
ApplyFirst ==
    /\ ~fout.done
    /\ fin.fn = "first_interaction"
    /\ LET fi == first_interaction(fin.rec, fin.message) IN
       fout' = [NoOut EXCEPT !.done = TRUE, !.rec = fi.rec, !.text = fi.text]
    /\ UNCHANGED <<file, session_dict, req, started, fin>>

NextFn == ApplyExtract \/ ApplySearch \/ ApplyFirst

SpecFn == InitFn /\ [][NextFn]_vars

(* =============================== claims ================================ *)
WeeklyDone(t) == req[t].route = "weekly" /\ req[t].pc = "done"

(* the generator was called: the request reached digest generation *)
Generated(t) == req[t].route = "weekly" /\ req[t].gen_calls = 1

(* the text holds a call of the tool: its name, "(" and a later ")" *)
CallIn(text, tool) ==
    \E i \in 1..Len(text), j \in 1..Len(text) :
        /\ text[i] = tool
        /\ i + 1 < j
        /\ text[i + 1] = LP
        /\ text[j] = RP

NoCallIn(text) == \A tool \in ToolNames : ~CallIn(text, tool)

(* the search tool of the profile's platform *)
PrefTool(news_pref) ==
    CASE news_pref = "YouTube" -> "youtube_search"
      [] news_pref = "TikTok" -> "tiktok_search"
      [] news_pref = "Instagram Reel" -> "instagram_search"
      [] OTHER -> "websearch"

(* C1, as claimed: a request that reaches digest generation returns a result
   list of exactly N entries, N a fixed target of at least 1. *)
C1_ExactCount ==
    \E N \in 1..MaxResults :
        \A t \in Threads :
            (WeeklyDone(t) /\ Generated(t)) => Len(req[t].resp.results) = N

(* C1, amended: a request that reaches digest generation returns either the
   500 error response without results, or a 200 response with one entry per
   item the executed tool returned, whatever their number. *)
C1_EntryPerItem ==
    \A t \in Threads :
        (WeeklyDone(t) /\ Generated(t)) =>
            \/ /\ req[t].resp.status = 500
               /\ req[t].resp.results = <<>>
            \/ /\ req[t].resp.status = 200
               /\ Len(req[t].resp.results) = Len(req[t].items)
               /\ \A i \in 1..Len(req[t].items) :
                      req[t].resp.results[i] = <<"* ", req[t].items[i]>>

C1_Witness ==
    \E t \in Threads :
        /\ WeeklyDone(t)
        /\ Generated(t)
        /\ req[t].resp.status = 200
        /\ Len(req[t].resp.results) = 1
        /\ req[t].backend = "ok"

(* C2, as claimed: when the search tool raises, the request still returns a
   complete digest whose entry has the link "Error fetching results". *)
C2_ErrorEntry ==
    \A t \in Threads :
        (WeeklyDone(t) /\ req[t].backend \in {"RateLimited", "SearchFailure"}) =>
            /\ req[t].resp.status = 200
            /\ \E i \in 1..Len(req[t].resp.results) :
                   req[t].resp.results[i] = <<"* ", <<"Error fetching results">> >>

(* C2, amended: when the search tool raises, the error is caught by the
   handler's except branch and the request returns the 500 error response
   carrying the error text, with no results. *)
C2_ErrorResponse ==
    \A t \in Threads :
        (WeeklyDone(t) /\ req[t].backend \in {"RateLimited", "SearchFailure"}) =>
            /\ req[t].resp.status = 500
            /\ req[t].resp.error = req[t].backend
            /\ req[t].resp.results = <<>>
            /\ req[t].resp.executed_tool = <<>>

C2_Witness ==
    \E t \in Threads :
        /\ WeeklyDone(t)
        /\ req[t].backend = "SearchFailure"
        /\ req[t].called = "youtube_search"

(* C3: a /weekly_update request whose user is not in the session store at
   the membership test ends with the user-not-found response, having made no
   generator call and no search call. *)
C3_UserNotFound ==
    [][\A t \in Threads :
          (/\ req[t].pc = "w_check"
           /\ req[t].user \notin DOMAIN session_dict
           /\ req'[t] # req[t]) =>
              /\ req'[t].pc = "done"
              /\ req'[t].resp = ErrorResp(404, "User not found in session store.")
              /\ req'[t].gen_calls = 0
              /\ req'[t].backend_calls = 0
              /\ req'[t].called = ""]_vars

C3_Witness ==
    \E t \in Threads :
        /\ WeeklyDone(t)
        /\ req[t].resp.status = 404
        /\ req[t].user \notin DOMAIN session_dict

C5_OnlySearchTools ==
    \A t \in Threads :
        (WeeklyDone(t) /\ req[t].called # "") => req[t].called \in SearchTools

(* C6, as claimed: the generator is never called for a user whose stored
   condition is empty. *)
C6_ConditionSet ==
    \A t \in Threads : Generated(t) => req[t].condition # ""

(* C7, as claimed: when the generator returns only malformed text the
   response has exactly 3 entries, each with the bare condition as query and
   the link "No call generated". *)
C7_Padding ==
    \A t \in Threads :
        (WeeklyDone(t) /\ Generated(t) /\ req[t].agent_response # <<>>
           /\ NoCallIn(req[t].agent_response)) =>
            /\ Len(req[t].resp.results) = 3
            /\ \A i \in 1..Len(req[t].resp.results) :
                   req[t].resp.results[i] =
                       <<"* ", Tokens(req[t].condition), <<"No call generated">> >>

(* C7, amended: when the generator returns only malformed text, the call
   handed to eval is the fallback tool("<condition> tips") of the profile's
   platform; the response is the 500 error response or the 200 response that
   names this call and lists the URLs it returned, none of them a
   "No call generated" placeholder. *)
C7_FallbackCall ==
    \A t \in Threads :
        (WeeklyDone(t) /\ Generated(t) /\ req[t].agent_response # <<>>
           /\ NoCallIn(req[t].agent_response)) =>
            /\ req[t].tool_call =
                   <<PrefTool(req[t].news_pref), LP, Q>>
                       \o Tokens(req[t].condition) \o <<" ", "tips", Q, RP>>
            /\ \/ req[t].resp.status = 500
               \/ /\ req[t].resp.status = 200
                  /\ req[t].resp.executed_tool = req[t].tool_call
                  /\ \A i \in 1..Len(req[t].resp.results) :
                         req[t].resp.results[i][2] # <<"No call generated">>

C7_Witness ==
    \E t \in Threads :
        /\ WeeklyDone(t)
        /\ req[t].agent_response = <<"Sorry, I cannot help">>
        /\ req[t].resp.status = 200
        /\ Len(req[t].resp.results) = 1

(* C8, as claimed: extract_tool applied to the rendered call tool("query")
   returns that call, for every tool of the list and every non-empty query
   without double quotes. *)
C8_RoundTrip ==
    (fout.done /\ fin.fn = "extract_tool") =>
        fout.val = RenderCall(fin.tool, fin.query)

(* the filters of the platform table *)
PlatformMatch(tool, url) ==
    CASE tool = "websearch" -> ~Contains(url, <<"duckduckgo.com">>)
      [] tool = "youtube_search" -> Contains(url, <<"youtube.com", "/watch">>)
      [] tool = "tiktok_search" -> Contains(url, <<"tiktok.com", "/video/">>)
      [] tool = "instagram_search" ->
            \/ Contains(url, <<"instagram.com", "/reel/">>)
            \/ Contains(url, <<"instagram.com", "/p/">>)

(* the filters the adapters apply *)
DomainMatch(tool, url) ==
    CASE tool = "websearch" -> TRUE
      [] tool = "youtube_search" -> Contains(url, <<"youtube.com", "/watch">>)
      [] tool = "tiktok_search" -> Contains(url, <<"tiktok.com">>)
      [] tool = "instagram_search" -> Contains(url, <<"instagram.com">>)

(* C9, as claimed: every URL an adapter returns satisfies its platform's
   filter of the table. *)
C9_PlatformFilter ==
    (fout.done /\ fin.fn = "search") =>
        \A i \in 1..Len(fout.val) : PlatformMatch(fin.tool, fout.val[i])

(* C9, amended: every URL youtube_search returns contains youtube.com/watch,
   every URL tiktok_search returns contains tiktok.com, every URL
   instagram_search returns contains instagram.com, and websearch returns the
   backend's URLs unfiltered. *)
C9_DomainFilter ==
    (fout.done /\ fin.fn = "search") =>
        /\ \A i \in 1..Len(fout.val) : DomainMatch(fin.tool, fout.val[i])
        /\ fin.tool = "websearch" => fout.val = fin.backend.hits

C9_Witness ==
    /\ fout.done
    /\ fin.fn = "search"
    /\ fin.tool = "tiktok_search"
    /\ fin.backend.hits = << <<"tiktok.com", "/@user">>, <<"youtube.com", "/watch">> >>
    /\ fout.val = << <<"tiktok.com", "/@user">> >>

(* C10, as claimed: a rate-limited backend call is retried, at most 3 times,
   with a sleep of 2^k before retry k, the total sleep being the sum. *)
C10_Backoff ==
    (fout.done /\ fin.fn = "search" /\ fin.backend.kind = "RateLimited") =>
        \E n \in 1..3 :
            /\ fout.calls = n + 1
            /\ fout.slept \in {2^n - 1, 2^(n + 1) - 2}

(* C10, amended: a rate-limited backend call is not retried: the adapter
   makes the one call, does not sleep and lets the error propagate. *)
C10_NoRetry ==
    (fout.done /\ fin.fn = "search" /\ fin.backend.kind = "RateLimited") =>
        /\ fout.calls = 1
        /\ fout.slept = 0
        /\ fout.raised = "RateLimited"
        /\ fout.val = <<>>

C10_Witness ==
    /\ fout.done
    /\ fin.fn = "search"
    /\ fin.backend.kind = "RateLimited"
    /\ fin.tool = "websearch"

(* C11: a /weekly_update request never changes the session dictionary in
   memory nor the session file: every step of a thread that handles
   /weekly_update leaves both as they were. *)
C11_WeeklyReadOnly ==
    [][(\E t \in Threads : req[t].route = "weekly" /\ req'[t] # req[t])
          => UNCHANGED <<file, session_dict>>]_vars

(* C12: a /weekly_update request of a user of the session store, run next to
   /query requests of other users, never fails with the KeyError of a user
   gone from the dictionary between the membership test and the read of the
   profile. *)
C12_Independent ==
    \A t \in Threads :
        (WeeklyDone(t) /\ req[t].user = "alice") => req[t].resp.error # "KeyError"

QueryDone(t) == req[t].route = "query" /\ req[t].pc = "done"

(* C13: when two /query requests of different users have both been answered,
   whatever their interleaving, the session file is whole and holds a record
   for both users. *)
C13_BothSaved ==
    \A s \in Threads, t \in Threads :
        ( /\ QueryDone(s) /\ req[s].resp.status = 200
          /\ QueryDone(t) /\ req[t].resp.status = 200
          /\ req[s].user # req[t].user )
        => /\ file.state = "ok"
           /\ {req[s].user, req[t].user} \subseteq DOMAIN file.data

(* C14: when the generator's answer holds no tool call, what weekly_update
   executes is exactly one call: the search tool of the profile's news_pref
   (websearch for any other news_pref) applied to "<condition> tips". *)
C14_FallbackExecuted ==
    \A t \in Threads :
        ( /\ WeeklyDone(t)
          /\ req[t].tool_call # <<>>
          /\ extract_tool(req[t].agent_response) = None )
        => LET e == EvalPlan(req[t].tool_call) IN
           /\ e.ok
           /\ Len(e.ops) = 1
           /\ e.ops[1].fn = PrefTool(req[t].news_pref)
           /\ e.ops[1].fn # "get_page"
           /\ e.ops[1].arg = Tokens(req[t].condition) \o <<" ", "tips">>

(* the stages whose question, or whose re-prompt, a response text is *)
StagesAsked(q) ==
    CASE q \in {"ask age", "invalid age"} -> {"age"}
      [] q = "ask weight" -> {"weight"}
      [] q = "ask medications" -> {"medications"}
      [] q = "ask emergency_contact" -> {"emergency_contact"}
      [] q = "ask news_pref" -> {"news_pref"}
      [] q = "click a button" -> {"news_pref", "condition1"}
      [] q = "ask condition1" -> {"condition1"}
      [] q \in {"onboarding complete", "fully onboarded"} -> {"done"}
      [] OTHER -> {}

(* C15: when a /query request has been answered, a restart included, the
   stage that the session file holds for the user is the stage of the
   question the response asks. *)
C15_StageAsked ==
    \A t \in Threads :
        (QueryDone(t) /\ req[t].resp.status = 200)
        => /\ file.state = "ok"
           /\ req[t].user \in DOMAIN file.data
           /\ file.data[req[t].user].onboarding_stage
                 \in StagesAsked(req[t].resp.text[Len(req[t].resp.text)])

(* a record whose validated fields hold validated answers *)
ValidProfile(rec) ==
    /\ rec.news_pref \in valid_options
    /\ rec.condition \in valid_conditions
    /\ rec.age \in {ToInt(m) : m \in {x \in Messages : IsDigit(x)}}

(* C16: in every reachable state a record at stage "done", in memory or in
   the session file, holds a news_pref of the four options, a condition of
   the two conditions and an age parsed from an all-digit message. *)
C16_DoneProfile ==
    /\ \A u \in DOMAIN session_dict :
          session_dict[u].onboarding_stage = "done" => ValidProfile(session_dict[u])
    /\ \A u \in DOMAIN file.data :
          file.data[u].onboarding_stage = "done" => ValidProfile(file.data[u])

(* C18: no step of a /query request whose message holds no "restart" changes
   or removes the record of a user whose onboarding_stage is "done". *)
C18_DoneStays ==
    [][\A t \in Threads :
          ( /\ req[t].route = "query"
            /\ ~HasRestart(Lower(req[t].message))
            /\ req'[t].pc # req[t].pc )
          => \A u \in DOMAIN session_dict :
                session_dict[u].onboarding_stage = "done"
                => /\ u \in DOMAIN session_dict'
                   /\ session_dict'[u] = session_dict[u]]_vars

(* the message is one that first_interaction rejects at the stage *)
Rejected(stage, message) ==
    \/ stage = "age" /\ ~IsDigit(message)
    \/ stage = "news_pref" /\ message \notin valid_options
    \/ stage = "condition1" /\ message \notin valid_conditions

(* C17: a non-digit message at stage age, a message outside the four options
   at stage news_pref and a message outside the two conditions at stage
   condition1 leave the stage and every field of the record as they were,
   and the text returned is the re-prompt of the stage. *)
C17_RejectKeepsRecord ==
    ( /\ fout.done
      /\ fin.fn = "first_interaction"
      /\ Rejected(fin.rec.onboarding_stage, fin.message) )
    => /\ fout.rec = fin.rec
       /\ fout.text = IF fin.rec.onboarding_stage = "age" THEN "invalid age"
                      ELSE "click a button"

C17_Witness ==
    /\ fout.done
    /\ fin.fn = "first_interaction"
    /\ fin.rec.onboarding_stage = "news_pref"
    /\ fin.rec.emergency_contact = "x"
    /\ fin.message = "youtube"
    /\ fout.text = "click a button"
====
